---- MODULE Spec2Model ----
(***************************************************************************)
(* Model of src/main.js: a zombie-infection simulation.                    *)
(*                                                                         *)
(*   Results      collects the day count of every completed simulation and *)
(*                renders count and arithmetic mean.                       *)
(*   Simulation   one town: houses (booleans), a zombie count, a day       *)
(*                counter and a setInterval timer that drives tick().      *)
(*   Application  builds numberOfSimulations simulations, chains them      *)
(*                through their onDone callbacks and starts the first one. *)
(*                                                                         *)
(* JavaScript runs every callback to completion, so one timer firing       *)
(* (tick, and the stop/onDone/start/render it triggers) is one step.       *)
(***************************************************************************)
EXTENDS Integers, Sequences, FiniteSets

(***************************************************************************)
(* Bounds of the model.                                                    *)
(***************************************************************************)
\* largest numberOfSimulations option explored
MaxSims == 2
\* largest numberOfHouses option explored
MaxHouses == 3
\* a tick that infects no new house is explored only while day < MaxDay
\* (a tick that infects one always is: there are at most numberOfHouses of them)
MaxDay == 3
\* longest Results.results explored when Results is driven on its own
MaxRecorded == 3
\* most Results.render() calls explored when Results is driven on its own
MaxRenders == 1
\* under a random source stuck at 0, ticks are explored while day < MaxStuckDay
MaxStuckDay == 30
\* most Application.run() calls explored when run() may be called again
MaxRunCalls == 2

\* day counts recorded when Results is driven on its own
RecordedDays == {1, 2, 10, 20, 30}

VARIABLES
    numberOfSimulations, \* Application.options.numberOfSimulations
    numberOfHouses,      \* Application.options.numberOfHouses
    app,                 \* outcome of `new Application(...)`: "ok" or the error thrown
    simulations,         \* Application.simulations: index -> [zombies, day, houses, timer]
    intervals,           \* the scheduler's live setInterval timers: [id, sim]
    nextTimerId,         \* the id the next setInterval call returns
    results,             \* Results.results
    display,             \* what Results.render() has shown, one record per call
    runCalls,            \* number of Application.run() calls so far
    ticks,               \* history: number of tick() calls per simulation
    startLog,            \* history: simulation indexes in the order start() was called
    doneLog,             \* history: onDone invocations, [sim, day] in order
    renderInputs         \* history: Results.results as it was at each render() call

vars == <<numberOfSimulations, numberOfHouses, app, simulations, intervals,
          nextTimerId, results, display, runCalls, ticks, startLog, doneLog,
          renderInputs>>

\* `this.timer` before start() has assigned it (undefined)
NoTimer == 0

(***************************************************************************)
(* Results                                                                 *)
(***************************************************************************)
\* Results.constructor: this.results = []
Results_constructor == << >>

\* Mutant of Results_add: unshift() instead of push()
Results_add_Unshift(rs, days) == <<days>> \o rs

\* Results.add(days): this.results.push(days)
Results_add(rs, days) == Append(rs, days)

RECURSIVE GCD(_, _)
GCD(a, b) == IF b = 0 THEN a ELSE GCD(b, a % b)

\* The JavaScript number a / b for integers a >= 0, b >= 0: 0/0 is NaN, a/0 is
\* Infinity, otherwise the quotient, kept exact as a fraction in lowest terms
\* (the double nearest to it identifies it for the small integers explored).
Divide(a, b) ==
    IF b = 0
    THEN (IF a = 0 THEN [nan |-> TRUE] ELSE [infinity |-> TRUE])
    ELSE LET g == GCD(a, b) IN [num |-> a \div g, den |-> b \div g]

\* this.results.reduce((prev, curr) => prev + curr, 0): a left fold from 0
RECURSIVE ReduceSum(_, _, _)
ReduceSum(rs, index, prev) ==
    IF index > Len(rs) THEN prev ELSE ReduceSum(rs, index + 1, prev + rs[index])

\* Mutant of Results_render: the average truncated to a whole number of days
Results_render_Truncated(rs) ==
    LET iterations == Len(rs)
        totalDays  == ReduceSum(rs, 1, 0)
    IN  [iterations |-> iterations,
         averageDays |-> IF iterations = 0 THEN Divide(totalDays, iterations)
                         ELSE [num |-> totalDays \div iterations, den |-> 1]]

\* Results.render(): the count and the average put in the summary text
Results_render(rs) ==
    LET iterations == Len(rs)
        totalDays  == ReduceSum(rs, 1, 0)
    IN  [iterations |-> iterations, averageDays |-> Divide(totalDays, iterations)]

(***************************************************************************)
(* Simulation                                                              *)
(***************************************************************************)
\* Mutant of Simulation_constructor: `this.zombies = 0`
Simulation_constructor_NoZombie(n) ==
    [zombies |-> 0, day |-> 0, houses |-> [h \in 0..(n - 1) |-> FALSE], timer |-> NoTimer]

\* Simulation.constructor: zombies 1, day 0, every house false, no timer yet
Simulation_constructor(n) ==
    [zombies |-> 1, day |-> 0, houses |-> [h \in 0..(n - 1) |-> FALSE], timer |-> NoTimer]

\* Math.floor(Math.random() * this.houses.length): any index of the array
RandomHouseNumbers(length) == 0..(length - 1)

\* Mutant of EnterHouses: the visit flips the house (houses[r] = !houses[r])
\* instead of setting it
RECURSIVE EnterHouses_Flip(_, _, _, _, _)
EnterHouses_Flip(houses, zombies, draws, zombie, newlyInfected) ==
    IF zombie < zombies
    THEN LET randomHouseNumber == draws[zombie] IN
         IF ~houses[randomHouseNumber]
         THEN EnterHouses_Flip([houses EXCEPT ![randomHouseNumber] = TRUE], zombies, draws,
                               zombie + 1, newlyInfected + 1)
         ELSE EnterHouses_Flip([houses EXCEPT ![randomHouseNumber] = FALSE], zombies, draws,
                               zombie + 1, newlyInfected)
    ELSE [houses |-> houses, newlyInfected |-> newlyInfected]

\* Mutant of EnterHouses: newlyInfected++ outside the if, so a visit to an
\* infected house counts too
RECURSIVE EnterHouses_CountsRepeats(_, _, _, _, _)
EnterHouses_CountsRepeats(houses, zombies, draws, zombie, newlyInfected) ==
    IF zombie < zombies
    THEN LET randomHouseNumber == draws[zombie] IN
         EnterHouses_CountsRepeats([houses EXCEPT ![randomHouseNumber] = TRUE], zombies,
                                   draws, zombie + 1, newlyInfected + 1)
    ELSE [houses |-> houses, newlyInfected |-> newlyInfected]

\* Mutant of EnterHouses: `this.zombies++` inside the loop, so the loop bound
\* grows and a zombie made in this step enters a house in the same step (its
\* draw taken to be a house further along)
RECURSIVE EnterHouses_NewZombiesAct(_, _, _, _, _)
EnterHouses_NewZombiesAct(houses, zombies, draws, zombie, newlyInfected) ==
    IF zombie < zombies + newlyInfected
    THEN LET randomHouseNumber ==
                 IF zombie \in DOMAIN draws THEN draws[zombie]
                 ELSE (draws[0] + zombie) % Cardinality(DOMAIN houses)
         IN
         IF ~houses[randomHouseNumber]
         THEN EnterHouses_NewZombiesAct([houses EXCEPT ![randomHouseNumber] = TRUE], zombies,
                                        draws, zombie + 1, newlyInfected + 1)
         ELSE EnterHouses_NewZombiesAct(houses, zombies, draws, zombie + 1, newlyInfected)
    ELSE [houses |-> houses, newlyInfected |-> newlyInfected]

\* The for loop of tick(): zombie after zombie enters the house drawn for it
RECURSIVE EnterHouses(_, _, _, _, _)
EnterHouses(houses, zombies, draws, zombie, newlyInfected) ==
    IF zombie < zombies
    THEN LET randomHouseNumber == draws[zombie] IN
         IF ~houses[randomHouseNumber]
         THEN EnterHouses([houses EXCEPT ![randomHouseNumber] = TRUE], zombies, draws,
                          zombie + 1, newlyInfected + 1)
         ELSE EnterHouses(houses, zombies, draws, zombie + 1, newlyInfected)
    ELSE [houses |-> houses, newlyInfected |-> newlyInfected]

\* Mutant of Simulation_tick: day++ inside the loop, once per zombie
Simulation_tick_DayPerZombie(s, draws) ==
    LET after == EnterHouses(s.houses, s.zombies, draws, 0, 0)
    IN  [s EXCEPT !.day = s.day + s.zombies,
                  !.houses = after.houses,
                  !.zombies = s.zombies + after.newlyInfected]

\* Mutant of Simulation_tick: `this.zombies = newlyInfected` instead of `+=`
Simulation_tick_ZombiesAssigned(s, draws) ==
    LET after == EnterHouses(s.houses, s.zombies, draws, 0, 0)
    IN  [s EXCEPT !.day = s.day + 1,
                  !.houses = after.houses,
                  !.zombies = after.newlyInfected]

\* tick() up to the completion test: day++, the loop, zombies += newlyInfected
Simulation_tick(s, draws) ==
    LET after == EnterHouses(s.houses, s.zombies, draws, 0, 0)
    IN  [s EXCEPT !.day = s.day + 1,
                  !.houses = after.houses,
                  !.zombies = s.zombies + after.newlyInfected]

\* Mutant of HousesIncludeFalse: `this.houses.indexOf(false) > 0`, which
\* misses an uninfected house at index 0
HousesIncludeFalse_IndexOf(houses) ==
    /\ houses[0] # FALSE
    /\ \E h \in DOMAIN houses : houses[h] = FALSE

\* Mutant of HousesIncludeFalse: the test inverted to `includes(true)`, so a
\* run goes on exactly when some house is infected
HousesIncludeFalse_Inverted(houses) == \E h \in DOMAIN houses : houses[h] = TRUE

\* Mutant of HousesIncludeFalse: the town counts as infected as soon as any
\* house is (`this.houses.includes(true)` as the completion test)
HousesIncludeFalse_NoneInfected(houses) == \A h \in DOMAIN houses : houses[h] = FALSE

\* this.houses.includes(false)
HousesIncludeFalse(houses) == \E h \in DOMAIN houses : houses[h] = FALSE

\* clearInterval(id): the timer with that id, if any, is no longer live
clearInterval(ivs, id) == {t \in ivs : t.id # id}

\* Mutant of Simulation_stop: the timer is not cleared
Simulation_stop_Leaks(ivs, s) == ivs

\* Mutant of Simulation_stop: a misspelt field, clearInterval(undefined)
Simulation_stop_WrongField(ivs, s) == clearInterval(ivs, NoTimer)

\* Simulation.stop(): clearInterval(this.timer)
Simulation_stop(ivs, s) == clearInterval(ivs, s.timer)

(***************************************************************************)
(* Application                                                             *)
(***************************************************************************)
\* Mutant of Application_constructor: an empty list of simulations is accepted
\* (the reduce() and the last-simulation assignment skipped when it is empty)
Application_constructor_AcceptsZero(n) == IF n < 0 THEN "RangeError" ELSE "ok"

\* new Application(options): `new Array(n)` throws a RangeError for n < 0, and
\* reduce() without an initial value throws a TypeError on the empty array.
Application_constructor(n) ==
    IF n < 0 THEN "RangeError" ELSE IF n = 0 THEN "TypeError" ELSE "ok"

\* Mutant of OnDoneStarts: the callback records the day but starts nothing
OnDoneStarts_None(i, n) == << >>

\* Mutant of OnDoneStarts: `prev.start()` instead of `current.start()`
OnDoneStarts_Prev(i, n) == IF i = n - 1 THEN << >> ELSE <<i>>

\* Mutant of OnDoneRenders: every callback renders the summary
OnDoneRenders_Always(i, n) == TRUE

\* initSynchronousSimulations: the simulations the onDone callback of
\* simulation i starts, in order (`current.start()` for every one but the last)
OnDoneStarts(i, n) == IF i = n - 1 THEN << >> ELSE <<i + 1>>

\* initSynchronousSimulations: whether the onDone callback of simulation i
\* calls this.results.render() (only the last one's does)
OnDoneRenders(i, n) == i = n - 1

\* Application.run(): the simulation it starts, this.simulations[0]
RunStarts == 0

\* Simulation.start() of simulation i on st = [sims, ivs, next, log]:
\* this.timer = setInterval(...), a fresh id whose timer is live from now on
Simulation_start(st, i) ==
    [sims |-> [st.sims EXCEPT ![i].timer = st.next],
     ivs  |-> st.ivs \cup {[id |-> st.next, sim |-> i]},
     next |-> st.next + 1,
     log  |-> Append(st.log, i)]

\* start() of each simulation of the sequence `order`, one after another
RECURSIVE StartEach(_, _)
StartEach(st, order) ==
    IF order = << >> THEN st ELSE StartEach(Simulation_start(st, Head(order)), Tail(order))

(***************************************************************************)
(* The program: `const app = new Application({...}); app.run();`           *)
(***************************************************************************)
Init ==
    /\ numberOfSimulations \in (-1)..MaxSims
    /\ numberOfHouses \in 1..MaxHouses
    /\ app = Application_constructor(numberOfSimulations)
    /\ simulations = IF app = "ok"
                     THEN [i \in 0..(numberOfSimulations - 1) |->
                              Simulation_constructor(numberOfHouses)]
                     ELSE << >>
    /\ intervals = {}
    /\ nextTimerId = 1
    /\ results = Results_constructor
    /\ display = << >>
    /\ runCalls = 0
    /\ ticks = [i \in DOMAIN simulations |-> 0]
    /\ startLog = << >>
    /\ doneLog = << >>
    /\ renderInputs = << >>

\* app.run()
Run ==
    /\ app = "ok"
    /\ LET st == Simulation_start([sims |-> simulations, ivs |-> intervals,
                                   next |-> nextTimerId, log |-> startLog], RunStarts)
       IN  /\ simulations' = st.sims
           /\ intervals' = st.ivs
           /\ nextTimerId' = st.next
           /\ startLog' = st.log
    /\ runCalls' = runCalls + 1
    /\ UNCHANGED <<numberOfSimulations, numberOfHouses, app, results, display, ticks,
                   doneLog, renderInputs>>

\* The program calls app.run() once (src/main.js line 185).
RunOnce == runCalls = 0 /\ Run

\* Mutant of AssignThis: every element of this.simulations is the same object
\* (`new Array(n).fill(new Simulation(...))`)
AssignThis_Shared(sims, i, s) == [j \in DOMAIN sims |-> s]

\* The writes of tick() to `this`: the map() callback of the constructor makes
\* one Simulation object per index, so they reach simulations[i] alone
AssignThis(sims, i, s) == [sims EXCEPT ![i] = s]

\* The live timer t fires: tick() of its simulation with the given random draws,
\* and, when no house is left uninfected, stop() and the onDone callback.
\* A tick that infects nothing is explored only while day < maxDay.
TimerFiresWithin(t, draws, maxDay) ==
    LET i == t.sim
        s == Simulation_tick(simulations[i], draws)
        complete == ~HousesIncludeFalse(s.houses)
        ticked == AssignThis(simulations, i, s)
    IN  /\ s.day <= maxDay \/ s.houses # simulations[i].houses
        /\ ticks' = [ticks EXCEPT ![i] = ticks[i] + 1]
        /\ IF complete
           THEN LET st == StartEach([sims |-> ticked,
                                     ivs  |-> Simulation_stop(intervals, s),
                                     next |-> nextTimerId, log |-> startLog],
                                    OnDoneStarts(i, numberOfSimulations))
                    added == Results_add(results, s.day)
                    renders == OnDoneRenders(i, numberOfSimulations)
                IN  /\ simulations' = st.sims
                    /\ intervals' = st.ivs
                    /\ nextTimerId' = st.next
                    /\ startLog' = st.log
                    /\ results' = added
                    /\ doneLog' = Append(doneLog, [sim |-> i, day |-> s.day])
                    /\ display' = IF renders THEN Append(display, Results_render(added))
                                  ELSE display
                    /\ renderInputs' = IF renders THEN Append(renderInputs, added)
                                       ELSE renderInputs
           ELSE /\ simulations' = ticked
                /\ UNCHANGED <<intervals, nextTimerId, startLog, results, doneLog,
                               display, renderInputs>>
        /\ UNCHANGED <<numberOfSimulations, numberOfHouses, app, runCalls>>

TimerFires(t, draws) == TimerFiresWithin(t, draws, MaxDay)

\* Any live timer may fire next, with any draws of Math.random()
Tick ==
    \E t \in intervals :
        \E draws \in [0..(simulations[t.sim].zombies - 1) ->
                        RandomHouseNumbers(Cardinality(DOMAIN simulations[t.sim].houses))] :
            TimerFires(t, draws)

Next == RunOnce \/ Tick

Spec == Init /\ [][Next]_vars

\* A timer firing whose draws hit at least one uninfected house
TickInfects ==
    \E t \in intervals :
        \E draws \in [0..(simulations[t.sim].zombies - 1) ->
                        RandomHouseNumbers(Cardinality(DOMAIN simulations[t.sim].houses))] :
            /\ TimerFires(t, draws)
            /\ simulations'[t.sim].houses # simulations[t.sim].houses

\* The script does call app.run(); a live setInterval timer keeps firing, and
\* Math.random() is uniform, so draws that hit an uninfected house cannot be
\* avoided forever (they come with probability 1).
FairSpec == Spec /\ WF_vars(RunOnce) /\ WF_vars(TickInfects)

\* A timer firing within the explored horizon of days
TickWithinHorizon ==
    \E t \in intervals :
        /\ simulations[t.sim].day < MaxDay
        /\ \E draws \in [0..(simulations[t.sim].zombies - 1) ->
                          RandomHouseNumbers(Cardinality(DOMAIN simulations[t.sim].houses))] :
               TimerFires(t, draws)

\* What the scheduling alone guarantees: the script calls app.run() and a live
\* setInterval timer keeps firing; nothing is assumed of what Math.random()
\* returns.  Ticks that infect nothing are explored only while day < MaxDay, so
\* the fairness is required only within that horizon: a behaviour that
\* stutters at the horizon stands for one whose ticks go on infecting nothing,
\* and no termination is concluded from the exploration bound.
TimerFairSpec == Spec /\ WF_vars(RunOnce) /\ WF_vars(TickWithinHorizon)

(***************************************************************************)
(* The program with Math.random() replaced by a source that always         *)
(* returns 0                                                               *)
(***************************************************************************)
\* Math.floor(0 * this.houses.length)
StuckHouseNumbers(length) == {0}

TickStuck ==
    \E t \in intervals :
        \E draws \in [0..(simulations[t.sim].zombies - 1) ->
                        StuckHouseNumbers(Cardinality(DOMAIN simulations[t.sim].houses))] :
            TimerFiresWithin(t, draws, MaxStuckDay)

NextStuck == RunOnce \/ TickStuck

SpecStuck == Init /\ [][NextStuck]_vars

(***************************************************************************)
(* The application with run() callable again at any time: `app` is a       *)
(* top-level const, and run() does not check whether it has run already    *)
(***************************************************************************)
\* app.run(), the first call or a later one
RunAgain == runCalls < MaxRunCalls /\ Run

NextReentrant == RunAgain \/ Tick

SpecReentrant == Init /\ [][NextReentrant]_vars

(***************************************************************************)
(* Results driven on its own: `new Results()`, then add() and render()     *)
(***************************************************************************)
InitResults ==
    /\ numberOfSimulations = 0
    /\ numberOfHouses = 0
    /\ app = "none"
    /\ simulations = << >>
    /\ intervals = {}
    /\ nextTimerId = 1
    /\ results = Results_constructor
    /\ display = << >>
    /\ runCalls = 0
    /\ ticks = << >>
    /\ startLog = << >>
    /\ doneLog = << >>
    /\ renderInputs = << >>

\* results.add(days)
ResultsAdd ==
    /\ Len(results) < MaxRecorded
    /\ \E days \in RecordedDays : results' = Results_add(results, days)
    /\ UNCHANGED <<numberOfSimulations, numberOfHouses, app, simulations, intervals,
                   nextTimerId, display, runCalls, ticks, startLog, doneLog, renderInputs>>

\* results.render()
ResultsRender ==
    /\ Len(display) < MaxRenders
    /\ display' = Append(display, Results_render(results))
    /\ renderInputs' = Append(renderInputs, results)
    /\ UNCHANGED <<numberOfSimulations, numberOfHouses, app, simulations, intervals,
                   nextTimerId, results, runCalls, ticks, startLog, doneLog>>

NextResults == ResultsAdd \/ ResultsRender

SpecResults == InitResults /\ [][NextResults]_vars

(***************************************************************************)
(* Vocabulary of the properties                                            *)
(***************************************************************************)
Sims == DOMAIN simulations

\* start() has been called on simulation i
Started(i) == \E j \in 1..Len(startLog) : startLog[j] = i

\* number of times simulation i has invoked its onDone callback
DoneCount(i) == Cardinality({j \in 1..Len(doneLog) : doneLog[j].sim = i})

\* some live timer drives simulation i
HasLiveTimer(i) == \E t \in intervals : t.sim = i

\* number of infected houses of simulation i
InfectedCount(i) ==
    Cardinality({h \in DOMAIN simulations[i].houses : simulations[i].houses[h]})

AllInfected(i) == \A h \in DOMAIN simulations[i].houses : simulations[i].houses[h]

IsPrefix(s, u) == Len(s) <= Len(u) /\ \A j \in 1..Len(s) : s[j] = u[j]

\* sum of a sequence, from its last element down
RECURSIVE SumOfDays(_)
SumOfDays(s) == IF s = << >> THEN 0 ELSE s[Len(s)] + SumOfDays(SubSeq(s, 1, Len(s) - 1))

(***************************************************************************)
(* Properties                                                              *)
(***************************************************************************)

\* C1: with a single app.run(), at most one simulation is active at a time
\* (active = started and not yet completed = has a live timer), and
\* simulation i+1 has been started only if simulation i has completed and its
\* day count is the (i+1)-th entry of Results.results.
C1_OneActiveRun ==
    /\ Cardinality(intervals) <= 1
    /\ Cardinality({i \in Sims : Started(i) /\ DoneCount(i) = 0}) <= 1
    /\ \A i \in Sims : HasLiveTimer(i) <=> (Started(i) /\ DoneCount(i) = 0)
    /\ \A i \in Sims :
         (i + 1 \in Sims /\ Started(i + 1)) =>
            /\ DoneCount(i) >= 1
            /\ Len(results) >= i + 1
            /\ results[i + 1] = simulations[i].day

\* C1 witness: the second run is the active one and has ticked, the first
\* one's day count is recorded and its timer is gone
C1_Witness ==
    /\ numberOfSimulations >= 2
    /\ HasLiveTimer(1) /\ ~HasLiveTimer(0)
    /\ Len(results) = 1
    /\ simulations[1].day >= 1

\* C2: the runs are started in index order 0, 1, 2, ...: no run is skipped,
\* none is started twice, and the next run is started as soon as a run
\* completes, so a completed batch has started every run exactly once.
C2_StartedInOrder ==
    /\ \A j \in 1..Len(startLog) : startLog[j] = j - 1
    /\ Len(startLog) <= Cardinality(Sims)
    /\ \A i \in Sims : (DoneCount(i) >= 1 /\ i + 1 \in Sims) => Started(i + 1)
    /\ (app = "ok" /\ Len(results) >= numberOfSimulations) => Len(startLog) = numberOfSimulations

\* C2 witness: a completed batch of two runs, started as 0 then 1
C2_Witness == numberOfSimulations = 2 /\ startLog = <<0, 1>> /\ DoneCount(1) = 1

\* C3: a simulation invokes onDone at most once, exactly once when all its
\* houses are infected, and the day it carries is the number of ticks the
\* simulation has executed.
C3_DoneExactlyOnce ==
    /\ \A i \in Sims : DoneCount(i) <= 1
    /\ \A i \in Sims : AllInfected(i) => DoneCount(i) = 1
    /\ \A j \in 1..Len(doneLog) :
         /\ doneLog[j].day = ticks[doneLog[j].sim]
         /\ doneLog[j].day = simulations[doneLog[j].sim].day

\* C3 witness: a run completed after ticks that infected nothing, while a
\* later run is ticking
C3_Witness ==
    \E i \in Sims :
        /\ DoneCount(i) = 1
        /\ ticks[i] > numberOfHouses
        /\ \E j \in Sims : j > i /\ ticks[j] >= 1

\* C4: the completion signal has been emitted if and only if all
\* numberOfHouses houses are infected; before it, fewer are.
C4_DoneIffAllInfected ==
    \A i \in Sims :
        /\ InfectedCount(i) <= numberOfHouses
        /\ (DoneCount(i) >= 1) <=> (InfectedCount(i) = numberOfHouses)

\* C4 witness: of three houses two are infected after two ticks, and the run
\* has not signalled completion
C4_Witness ==
    \E i \in Sims :
        /\ numberOfHouses = 3 /\ InfectedCount(i) = 2 /\ ticks[i] >= 2
        /\ DoneCount(i) = 0

\* C5: every tick leaves the zombie count at least what it was and makes the
\* day counter the previous value plus one.
C5_TickStep ==
    [][\A i \in Sims :
          ticks'[i] # ticks[i] =>
             /\ simulations'[i].day = simulations[i].day + 1
             /\ simulations'[i].zombies >= simulations[i].zombies]_vars

\* C5 witness: a run that has had a tick infecting nothing and one infecting
\* a house
C5_Witness ==
    \E i \in Sims :
        /\ ticks[i] >= 2 /\ simulations[i].zombies = 2 /\ simulations[i].day = ticks[i]

\* C6: a simulation that has not been started has every house uninfected,
\* and no step turns an infected house back to uninfected.
C6_InfectionPermanent ==
    /\ [](\A i \in Sims : ~Started(i) => InfectedCount(i) = 0)
    /\ [][\A i \in Sims : \A h \in DOMAIN simulations[i].houses :
             simulations[i].houses[h] => simulations'[i].houses[h]]_vars

\* C6 witness: ticks have run with two zombies that both entered the one
\* infected house, which is still infected
C6_Witness ==
    \E i \in Sims :
        /\ numberOfHouses >= 2 /\ ticks[i] >= 3
        /\ InfectedCount(i) = 1 /\ simulations[i].zombies = 2 /\ DoneCount(i) = 0

\* a run in its terminal state: all houses infected, completion signalled
Terminal(i) == i \in Sims /\ AllInfected(i) /\ DoneCount(i) >= 1

C8_ResultsAppendOnly ==
    /\ [](/\ Len(results) = Cardinality({i \in Sims : DoneCount(i) >= 1})
          /\ Len(results) = Len(doneLog)
          /\ \A j \in 1..Len(results) :
               /\ doneLog[j].sim = j - 1
               /\ results[j] = simulations[j - 1].day
               /\ results[j] = ticks[j - 1])
    /\ [][IsPrefix(results, results')]_vars

\* C8 witness: two runs have completed with different day counts
C8_Witness == Len(results) = 2 /\ results[1] # results[2] /\ DoneCount(1) = 1

\* C9: the summary is rendered at most once, exactly when the last run has
\* completed, from results that already hold that run's day count, and it
\* reports numberOfSimulations runs.
C9_SummaryOnce ==
    /\ Len(display) <= 1
    /\ Len(display) = Len(renderInputs)
    /\ (Len(display) = 1) <=> (app = "ok" /\ DoneCount(numberOfSimulations - 1) >= 1)
    /\ \A j \in 1..Len(display) :
         /\ display[j].iterations = numberOfSimulations
         /\ Len(renderInputs[j]) = numberOfSimulations
         /\ renderInputs[j][numberOfSimulations] = simulations[numberOfSimulations - 1].day
         /\ renderInputs[j] = results

\* C9 witness: the summary of a batch of two runs is on display
C9_Witness == numberOfSimulations = 2 /\ Len(display) = 1 /\ Len(results) = 2

\* C9, converse situation: a non-last run has completed and nothing is shown
C9_WitnessNotLast == numberOfSimulations = 2 /\ DoneCount(0) = 1 /\ display = << >>

\* C10: a summary of a non-empty sequence of day counts reports its length as
\* count and (sum of the sequence) / count as averageDays; for 10, 20, 30 it
\* reports count 3 and averageDays 20.
C10_SummaryIsMean ==
    \A j \in 1..Len(display) :
        LET input == renderInputs[j]
            shown == display[j]
        IN  /\ shown.iterations = Len(input)
            /\ input # << >> =>
                 /\ DOMAIN shown.averageDays = {"num", "den"}
                 /\ shown.averageDays.den > 0
                 /\ shown.averageDays.num * Len(input)
                      = SumOfDays(input) * shown.averageDays.den
            /\ input = <<10, 20, 30>> =>
                 shown = [iterations |-> 3, averageDays |-> [num |-> 20, den |-> 1]]

\* C10 witness: the summary of 10, 20, 30 has been rendered
C10_Witness == Len(display) = 1 /\ renderInputs[1] = <<10, 20, 30>>

\* C10 witness: a summary whose average is not a whole number
C10_WitnessFraction ==
    Len(display) = 1 /\ renderInputs[1] = <<1, 2>> /\ display[1].averageDays.den = 2


\* C11: with numberOfSimulations = 1 and numberOfHouses = 1, whatever is drawn,
\* the single run completes on its first tick (day 1) and the summary shows
\* count 1 and averageDays 1.
C11_OneHouseOneDay ==
    (numberOfSimulations = 1 /\ numberOfHouses = 1) =>
        /\ ticks[0] <= 1
        /\ ticks[0] = 0 => (results = << >> /\ display = << >>)
        /\ ticks[0] = 1 =>
             /\ DoneCount(0) = 1
             /\ simulations[0].day = 1
             /\ results = <<1>>
             /\ display = <<[iterations |-> 1, averageDays |-> [num |-> 1, den |-> 1]]>>

\* C11 witness: the one-house, one-run batch has ticked and shown its summary
C11_Witness ==
    /\ numberOfSimulations = 1 /\ numberOfHouses = 1
    /\ ticks[0] = 1 /\ Len(display) = 1


\* C12: with a random source that always gives index 0 and two or more
\* houses, houses 1..N-1 are uninfected in every state, no completion is ever
\* signalled or recorded, the started run keeps its live timer, every tick
\* raises the day counter by one, and a further tick is always possible.
C12_StuckRunNeverEnds ==
    /\ [](numberOfHouses >= 2 =>
            /\ results = << >> /\ doneLog = << >> /\ display = << >>
            /\ \A i \in Sims :
                 /\ \A h \in 1..(numberOfHouses - 1) : simulations[i].houses[h] = FALSE
                 /\ simulations[i].day = ticks[i]
                 /\ Started(i) => HasLiveTimer(i)
                 /\ (Started(i) /\ simulations[i].day < MaxStuckDay) => ENABLED TickStuck)
    /\ [][\A i \in Sims : ticks'[i] # ticks[i] =>
             simulations'[i].day = simulations[i].day + 1]_vars

\* C12 witness: a three-house run is at day 10 with only house 0 infected
C12_Witness ==
    /\ app = "ok" /\ numberOfHouses = 3
    /\ simulations[0].day = 10 /\ simulations[0].zombies = 2
    /\ simulations[0].houses[0] /\ HasLiveTimer(0)


\* C13: a run that has signalled completion has no live timer from that tick
\* on, so it never ticks again and its day counter, houses and zombie count
\* stay as they were; once the last run has completed no timer is live.
C13_NoTickAfterDone ==
    /\ [](/\ \A i \in Sims : DoneCount(i) >= 1 =>
                /\ ~HasLiveTimer(i)
                /\ \A t \in intervals : t.id # simulations[i].timer
          /\ (app = "ok" /\ DoneCount(numberOfSimulations - 1) >= 1) => intervals = {})
    /\ [][\A i \in Sims : DoneCount(i) >= 1 =>
             /\ ticks'[i] = ticks[i]
             /\ simulations'[i] = simulations[i]]_vars

\* C13 witness: the first run is complete and the second has ticked twice
\* since
C13_Witness ==
    /\ numberOfSimulations = 2
    /\ DoneCount(0) = 1 /\ ticks[1] >= 2 /\ HasLiveTimer(1)
    /\ simulations[0].day = ticks[0]


\* C14: with numberOfSimulations < 1 the constructor throws, so there is no
\* application: no simulation exists, run() is never called, nothing is
\* started, recorded or rendered; and no summary ever divides by a zero count.
C14_RejectsNoSimulations ==
    /\ numberOfSimulations < 1 =>
         /\ app \in {"RangeError", "TypeError"}
         /\ simulations = << >>
         /\ runCalls = 0 /\ startLog = << >> /\ intervals = {}
         /\ results = << >> /\ display = << >>
    /\ \A j \in 1..Len(display) : display[j].iterations >= 1

\* C14 witness: construction with numberOfSimulations = 0 has thrown
C14_Witness == numberOfSimulations = 0 /\ app = "TypeError" /\ runCalls = 0


\* a simulation as the constructor makes it, but for its timer
Fresh(s) == s.zombies = 1 /\ s.day = 0 /\ \A h \in DOMAIN s.houses : s.houses[h] = FALSE

\* C15: a tick of run i leaves the houses, zombie count and day counter of
\* every other run unchanged, and a run that has not been started, or is
\* being started in this step, has all houses uninfected, zombie count 1 and
\* day counter 0.
C15_RunsIndependent ==
    /\ [](\A i \in Sims : ~Started(i) => Fresh(simulations[i]))
    /\ [][\A i \in Sims :
            /\ ticks'[i] # ticks[i] =>
                 \A j \in Sims \ {i} :
                    /\ simulations'[j].houses = simulations[j].houses
                    /\ simulations'[j].zombies = simulations[j].zombies
                    /\ simulations'[j].day = simulations[j].day
            /\ (~Started(i) /\ \E j \in 1..Len(startLog') : startLog'[j] = i) =>
                 Fresh(simulations'[i])]_vars

\* C15 witness: the second run has just been started, untouched by the ticks
\* of the first, which is complete
C15_Witness ==
    /\ numberOfSimulations = 2 /\ numberOfHouses >= 2
    /\ DoneCount(0) = 1 /\ simulations[0].day >= 2
    /\ Started(1) /\ ticks[1] = 0 /\ Fresh(simulations[1])


\* C16: a tick of a run that has already signalled completion changes
\* nothing: not the run's houses, zombie count or day counter, not
\* Results.results, and not which runs have been started.
C16_TickAfterDoneIsIdle ==
    [][\A i \in Sims :
          (DoneCount(i) >= 1 /\ ticks'[i] # ticks[i]) =>
             /\ simulations'[i].houses = simulations[i].houses
             /\ simulations'[i].zombies = simulations[i].zombies
             /\ simulations'[i].day = simulations[i].day
             /\ results' = results
             /\ startLog' = startLog]_vars

\* C20: however run() calls and timer firings interleave, no run's completion
\* is recorded twice, Results.results holds at most numberOfSimulations
\* entries, and a run that has completed has no live timer left.
C20_NoDoubleCompletion ==
    /\ Len(results) <= Cardinality(Sims)
    /\ \A i \in Sims : DoneCount(i) <= 1
    /\ \A i \in Sims : DoneCount(i) >= 1 => ~HasLiveTimer(i)


\* the batch is complete: every run's day is recorded, the summary is shown
\* and no timer is live
BatchComplete ==
    /\ app = "ok"
    /\ Len(results) = numberOfSimulations
    /\ \A i \in Sims : DoneCount(i) = 1
    /\ Len(display) = 1 /\ display[1].iterations = numberOfSimulations
    /\ intervals = {}

\* C17: before run() is called nothing is started and nothing ticks; after the
\* one run() call, with timers that keep firing and draws that do not avoid
\* the uninfected houses forever, the batch eventually is complete, with
\* exactly numberOfSimulations results and the summary shown.
C17_IdleThenComplete ==
    /\ [](runCalls = 0 =>
            /\ startLog = << >> /\ intervals = {} /\ results = << >> /\ display = << >>
            /\ \A i \in Sims : ticks[i] = 0 /\ Fresh(simulations[i]))
    /\ [](Len(results) <= Cardinality(Sims))
    /\ (app = "ok" /\ runCalls = 1) ~> BatchComplete

\* C17 witness: a batch of two runs of three houses is complete
C17_Witness ==
    /\ numberOfSimulations = 2 /\ numberOfHouses = 3 /\ runCalls = 1
    /\ BatchComplete /\ startLog = <<0, 1>>


\* C18: in every state of a run the zombie count is 1 plus the number of
\* infected houses (a visit to an infected house adds nothing), so it is
\* numberOfHouses + 1 once the run is complete.
C18_ZombiesAreInfectedPlusOne ==
    \A i \in Sims :
        /\ simulations[i].zombies = 1 + InfectedCount(i)
        /\ DoneCount(i) >= 1 => simulations[i].zombies = numberOfHouses + 1

\* C18 witness: a three-house run completed with 4 zombies after a tick in
\* which zombies entered infected houses only
C18_Witness ==
    \E i \in Sims :
        /\ numberOfHouses = 3 /\ DoneCount(i) = 1
        /\ simulations[i].zombies = 4 /\ simulations[i].day >= 4


RECURSIVE Pow2(_)
Pow2(d) == IF d = 0 THEN 1 ELSE 2 * Pow2(d - 1)

\* C19: a tick makes as many visits as there are zombies when it begins, so
\* the zombie count at most doubles per tick: after d ticks at most 2^d - 1
\* houses are infected (and there are at most 2^d zombies), and no run of N
\* houses signals completion on a day d with 2^d - 1 < N.
C19_AtMostDoubling ==
    /\ [](/\ \A i \in Sims :
               /\ InfectedCount(i) <= Pow2(simulations[i].day) - 1
               /\ simulations[i].zombies <= Pow2(simulations[i].day)
          /\ \A j \in 1..Len(doneLog) : Pow2(doneLog[j].day) - 1 >= numberOfHouses)
    /\ [][\A i \in Sims : simulations'[i].zombies <= 2 * simulations[i].zombies]_vars

\* C19 witness: a three-house run completed on day 2, the earliest day the
\* bound allows (1 zombie, then 2 zombies infecting two houses in one tick)
C19_Witness ==
    \E j \in 1..Len(doneLog) :
        /\ numberOfHouses = 3 /\ doneLog[j].day = 2
        /\ simulations[doneLog[j].sim].zombies = 4

====
